---- MODULE Spec2Model ----
\* Verification model of the DEX adapters of the solvers repository:
\*   - Balancer SOR adapter   (src/src/infra/dex/balancer/mod.rs)
\*   - 1Inch adapter          (src/src/infra/dex/oneinch/mod.rs)
\*   - 0x query DTO           (src/src/infra/dex/zeroex/dto.rs)
\*
\* Three specifications are defined over one set of variables:
\*   Spec      one swap / query-building call at a time, inputs drawn from
\*             bounded sets (the adapters as functions of their inputs);
\*   SpecNew   the construction loop OneInch::new (LiveNew adds fairness);
\*   SpecConc  concurrent swap calls on one adapter instance.
EXTENDS Integers, Sequences, FiniteSets, TLC

VARIABLES
    call,     \* Spec: the single call under study, [pc, adapter, order, slippage, tokens, reply, result]
    boot,     \* SpecNew: the state of OneInch::new
    calls,    \* SpecConc: the in-flight swap calls, one record per call
    ID,       \* SpecConc: the adapter's static request-id counter
    adapter   \* SpecConc: the adapter instance (its kind and configuration)

vars == <<call, boot, calls, ID, adapter>>

-----------------------------------------------------------------------------
\* Bounds of the model.

\* Width of the unsigned/signed "256-bit" integers of the model. All U256/I256
\* arithmetic below is parameterised by it, so that the boundary 2^(BITS-1)
\* (2^255 in the program) is inside the enumerated range.
BITS == 2

\* Longest token list of a Balancer route.
MaxTokens == 3

\* Largest number of elementary swaps in a Balancer route.
MaxSwaps == 1

\* Longest an HTTP lookup of the construction takes, in seconds.
MaxLookupSecs == 1

\* Longest the retry sleep over-sleeps, in seconds.
MaxOversleep == 1

\* Number of concurrent swap calls.
NCalls == 2

\* Longest list of liquidity sources the provider returns.
MaxProtocols == 2

-----------------------------------------------------------------------------
\* Integer types.

Pow2(n) == 2 ^ n

U256Max == Pow2(BITS) - 1
I256Max == Pow2(BITS - 1) - 1
I256Min == 0 - Pow2(BITS - 1)
U256 == 0 .. U256Max

\* Option<T>: None is <<>>, Some(x) is <<x>>.
None == <<>>
Some(x) == <<x>>

Min(a, b) == IF a <= b THEN a ELSE b
Max(a, b) == IF a >= b THEN a ELSE b

\* A bit-cast of the unsigned value into the signed range (what an `as` cast
\* would do instead of the checked conversion).
I256TryFromWrapping(u) == Some(IF u <= I256Max THEN u ELSE u - Pow2(BITS))

\* I256::try_from(U256): fails for values above I256::MAX.
I256TryFrom(u) == IF u <= I256Max THEN Some(u) ELSE None

\* Result::unwrap_or_default for I256 (default is zero).
UnwrapOrDefault(r) == IF r = None THEN 0 ELSE r[1]

\* I256::checked_neg: None exactly for I256::MIN.
CheckedNeg(i) == IF i = I256Min THEN None ELSE Some(0 - i)

-----------------------------------------------------------------------------
\* Domain vocabulary.

Tokens == {"A", "B", "C"}
Sides == {"Sell", "Buy"}

\* Slippage tolerances, in basis points.
BpsDenominator == 10000
Slippages == {[bps |-> 0], [bps |-> 5000]}

\* Slippage::add: loosen a bound upward, saturating at the top of the range.
SlippageAdd(slippage, amount) ==
    Min(U256Max, amount + ((amount * slippage.bps) \div BpsDenominator))

\* Slippage::sub: tighten a bound downward, saturating at zero.
SlippageSub(slippage, amount) ==
    Max(0, amount - ((amount * slippage.bps) \div BpsDenominator))

\* Slippage::as_bps.
U16Max == 65535
SlippageAsBps(slippage) ==
    IF slippage.bps <= U16Max THEN Some(slippage.bps) ELSE None

-----------------------------------------------------------------------------
\* The HTTP round trip. An upstream reply is [status, body]; status 0 stands
\* for a transport failure (no response). A body is one of
\*   [kind |-> "success", data |-> ...]   parses as the Success type
\*   [kind |-> "error", status_code, description]  parses as 1Inch's dto::Error
\*   [kind |-> "garbage"]                  parses as neither

Is2xx(status) == status >= 200 /\ status < 300

\* roundtrip!(<Success, ApiError>; request). parsesApiError says whether the
\* ApiError type can be parsed at all (util::serialize::Never cannot).
Roundtrip(reply, parsesApiError) ==
    IF reply.status = 0
    THEN [tag |-> "Http", err |-> [kind |-> "Transport", status |-> 0]]
    ELSE IF Is2xx(reply.status)
    THEN IF reply.body.kind = "success"
         THEN [tag |-> "Ok", data |-> reply.body.data]
         ELSE [tag |-> "Http", err |-> [kind |-> "Json", status |-> reply.status]]
    ELSE IF parsesApiError /\ reply.body.kind = "error"
    THEN [tag |-> "Api",
          err |-> [status_code |-> reply.body.status_code,
                   description |-> reply.body.description]]
    ELSE [tag |-> "Http", err |-> [kind |-> "Status", status |-> reply.status]]

HttpErrorStatuses == {400, 403, 429, 500}
ProviderCodes == {400, 403, 429, 500}
Descriptions == {"insufficient liquidity", "forbidden"}

GarbageBody == [kind |-> "garbage"]
ErrorBodies ==
    {[kind |-> "error", status_code |-> c, description |-> d] :
        c \in ProviderCodes, d \in Descriptions}

\* Replies that carry no success payload.
FailureReplies ==
    {[status |-> 0, body |-> GarbageBody], [status |-> 200, body |-> GarbageBody]}
    \cup {[status |-> s, body |-> b] :
            s \in HttpErrorStatuses, b \in ErrorBodies \cup {GarbageBody}}

-----------------------------------------------------------------------------
\* Results of a swap call: [tag |-> "Ok", swap |-> ...], [tag |-> "Err",
\* err |-> ...] or [tag |-> "Panic"] (an aborted call).

Ok(swap) == [tag |-> "Ok", swap |-> swap]
Err(e) == [tag |-> "Err", err |-> e]
Panic == [tag |-> "Panic"]

-----------------------------------------------------------------------------
\* Balancer SOR adapter.

GAS_PER_SWAP == 88892

\* The adapter instance built by Sor::new.
SorInstance ==
    [kind |-> "sor",
     endpoint |-> "sor-endpoint",
     vault |-> "Vault",
     settlement |-> "Settlement",
     chain_id |-> "MAINNET",
     query_batch_swap |-> TRUE]

\* dto::Query::from_domain: fails when the decimals of a swapped token are
\* not in the auction's token metadata (tokens is the set of tokens whose
\* decimals are known).
SorQueryFromDomain(self, order, tokens, slippage) ==
    IF order.sell \notin tokens
    THEN Err([kind |-> "MissingDecimals", token |-> order.sell])
    ELSE IF order.buy \notin tokens
    THEN Err([kind |-> "MissingDecimals", token |-> order.buy])
    ELSE [tag |-> "Ok",
          query |-> [chain |-> self.chain_id,
                     sell |-> order.sell,
                     buy |-> order.buy,
                     side |-> order.side,
                     amount |-> order.amount,
                     query_batch_swap |-> self.query_batch_swap]]

\* dto::Quote::is_empty
SorQuoteIsEmpty(quote) == Len(quote.swaps) = 0

\* impl From<RoundtripError<Never>> for Error
SorErrorFrom(rt) ==
    IF rt.tag = "Http" /\ rt.err.kind = "Status" /\ rt.err.status = 429
    THEN [kind |-> "RateLimited"]
    ELSE [kind |-> "Http", inner |-> rt.err]

\* The effective amounts with both arms reading the response the same way.
SorSideAmountsSellOnly(order, quote) ==
    [input |-> quote.swap_amount_raw, output |-> quote.return_amount_raw]

\* let (input, output) = match order.side { ... }
SorSideAmounts(order, quote) ==
    IF order.side = "Buy"
    THEN [input |-> quote.return_amount_raw, output |-> quote.swap_amount_raw]
    ELSE [input |-> quote.swap_amount_raw, output |-> quote.return_amount_raw]

\* let (max_input, min_output) = match order.side { ... }
SorBounds(order, slippage, input, output) ==
    IF order.side = "Buy"
    THEN [max_input |-> SlippageAdd(slippage, input), min_output |-> output]
    ELSE [max_input |-> input, min_output |-> SlippageSub(slippage, output)]

\* let kind = match order.side { ... }
SorSwapKind(order) == IF order.side = "Sell" THEN "GivenIn" ELSE "GivenOut"

\* The limit closure with the buy-token entry left positive.
SorLimitNotNegated(token, quote, max_input, min_output) ==
    IF token = quote.token_in
    THEN Some(UnwrapOrDefault(I256TryFrom(max_input)))
    ELSE IF token = quote.token_out
    THEN Some(UnwrapOrDefault(I256TryFrom(min_output)))
    ELSE Some(0)

\* The closure computing one entry of limits. None stands for the failed
\* expect("positive integer can't overflow negation").
SorLimit(token, quote, max_input, min_output) ==
    IF token = quote.token_in
    THEN Some(UnwrapOrDefault(I256TryFrom(max_input)))
    ELSE IF token = quote.token_out
    THEN CheckedNeg(UnwrapOrDefault(I256TryFrom(min_output)))
    ELSE Some(0)

\* limits = quote.token_addresses.iter().map(...).collect()
SorLimits(quote, max_input, min_output) ==
    [i \in 1 .. Len(quote.token_addresses) |->
        SorLimit(quote.token_addresses[i], quote, max_input, min_output)]

\* swaps = quote.swaps.into_iter().map(...).collect()
SorVaultSwaps(quote) ==
    [i \in 1 .. Len(quote.swaps) |->
        [pool_id |-> quote.swaps[i].pool_id,
         asset_in_index |-> quote.swaps[i].asset_in_index,
         asset_out_index |-> quote.swaps[i].asset_out_index,
         amount |-> quote.swaps[i].amount,
         user_data |-> quote.swaps[i].user_data]]

\* The part of Sor::swap after the quote was received and found non-empty.
SorBuildSwap(self, order, slippage, quote) ==
    LET amounts == SorSideAmounts(order, quote)
        bounds == SorBounds(order, slippage, amounts.input, amounts.output)
        limits == SorLimits(quote, bounds.max_input, bounds.min_output)
    IN  IF \E i \in DOMAIN limits : limits[i] = None
        THEN Panic
        ELSE [tag |-> "Ok",
              swap |->
                [call |-> [to |-> self.vault,
                           kind |-> SorSwapKind(order),
                           swaps |-> SorVaultSwaps(quote),
                           assets |-> quote.token_addresses,
                           funds |-> [sender |-> self.settlement,
                                      from_internal_balance |-> FALSE,
                                      recipient |-> self.settlement,
                                      to_internal_balance |-> FALSE],
                           limits |-> [i \in DOMAIN limits |-> limits[i][1]],
                           deadline |-> Pow2(BITS - 1)],
                 input |-> [token |-> quote.token_in, amount |-> amounts.input],
                 output |-> [token |-> quote.token_out, amount |-> amounts.output],
                 allowance |-> [spender |-> self.vault, amount |-> bounds.max_input],
                 gas |-> Len(quote.swaps) * GAS_PER_SWAP],
              max_input |-> bounds.max_input,
              min_output |-> bounds.min_output]

\* Sor::swap from the upstream reply on.
SorFinish(self, order, slippage, reply) ==
    LET rt == Roundtrip(reply, FALSE)
    IN  IF rt.tag # "Ok"
        THEN Err(SorErrorFrom(rt))
        ELSE IF SorQuoteIsEmpty(rt.data)
        THEN Err([kind |-> "NotFound"])
        ELSE SorBuildSwap(self, order, slippage, rt.data)

\* Sor::swap
SorSwap(self, order, slippage, tokens, reply) ==
    IF SorQueryFromDomain(self, order, tokens, slippage).tag = "Err"
    THEN Err(SorQueryFromDomain(self, order, tokens, slippage).err)
    ELSE SorFinish(self, order, slippage, reply)

\* Inputs of the Balancer adapter. Token names are interchangeable, so the
\* order's tokens are fixed while the response's tokens range over all of
\* Tokens.
SeqsUpTo(S, n) == UNION {[1 .. k -> S] : k \in 0 .. n}

SwapSteps(n) ==
    [i \in 1 .. n |->
        [pool_id |-> i, asset_in_index |-> 0, asset_out_index |-> 0,
         amount |-> 0, user_data |-> <<>>]]

SorOrders ==
    {[sell |-> "A", buy |-> "B", amount |-> 1, side |-> s] : s \in Sides}

SorQuotes ==
    {[token_addresses |-> ta, token_in |-> ti, token_out |-> to,
      swap_amount_raw |-> sa, return_amount_raw |-> ra, swaps |-> SwapSteps(n)] :
        ta \in SeqsUpTo(Tokens, MaxTokens), ti \in Tokens, to \in Tokens,
        sa \in U256, ra \in U256, n \in 0 .. MaxSwaps}

SorReplies ==
    {[status |-> 200, body |-> [kind |-> "success", data |-> q]] : q \in SorQuotes}
    \cup FailureReplies

-----------------------------------------------------------------------------
\* 1Inch adapter.

DEFAULT_URL == "https://api.1inch.io/v5.0/1/"

\* dto::Query as built at the end of OneInch::try_new; the fields set per
\* quote start out with their Default values.
OneInchDefaults(config, protocols) ==
    [from_token_address |-> "0x0",
     to_token_address |-> "0x0",
     amount |-> 0,
     from_address |-> config.settlement,
     slippage |-> None,
     protocols |-> protocols,
     referrer_address |->
        Some(IF config.referrer = None THEN config.settlement ELSE config.referrer[1]),
     disable_estimate |-> Some(TRUE),
     main_route_parts |-> config.main_route_parts,
     connector_tokens |-> config.connector_tokens,
     complexity_level |-> config.complexity_level]

\* Ok(Self { client, endpoint, defaults, spender })
OneInchSelf(config, protocols, spender) ==
    [kind |-> "oneinch",
     endpoint |-> IF config.endpoint = None THEN DEFAULT_URL ELSE config.endpoint[1],
     defaults |-> OneInchDefaults(config, protocols),
     spender |-> spender]

\* dto::Query::try_with_domain: buy orders are not supported by the provider.
OneInchTryWithDomain(defaults, order, slippage) ==
    IF order.side = "Buy"
    THEN Err([kind |-> "OrderNotSupported"])
    ELSE [tag |-> "Ok",
          query |-> [defaults EXCEPT !.from_token_address = order.sell,
                                     !.to_token_address = order.buy,
                                     !.amount = order.amount,
                                     !.slippage = SlippageAsBps(slippage)]]

\* The error conversion with only code 400 classified as "not found".
OneInchErrorFromOnly400(rt) ==
    IF rt.tag = "Http"
    THEN IF rt.err.kind = "Status" /\ rt.err.status = 429
         THEN [kind |-> "RateLimited"]
         ELSE [kind |-> "Http", inner |-> rt.err]
    ELSE IF rt.err.status_code = 400
    THEN [kind |-> "NotFound"]
    ELSE [kind |-> "Api", code |-> rt.err.status_code,
          description |-> rt.err.description]

\* impl From<RoundtripError<dto::Error>> for Error
OneInchErrorFrom(rt) ==
    IF rt.tag = "Http"
    THEN IF rt.err.kind = "Status" /\ rt.err.status = 429
         THEN [kind |-> "RateLimited"]
         ELSE [kind |-> "Http", inner |-> rt.err]
    ELSE IF rt.err.status_code \in {400, 403}
    THEN [kind |-> "NotFound"]
    ELSE [kind |-> "Api", code |-> rt.err.status_code,
          description |-> rt.err.description]

\* OneInch::quote
OneInchQuote(self, query, reply) ==
    IF Roundtrip(reply, TRUE).tag = "Ok"
    THEN Roundtrip(reply, TRUE)
    ELSE Err(OneInchErrorFrom(Roundtrip(reply, TRUE)))

\* Ok(dex::Swap { ... }) at the end of OneInch::swap.
OneInchBuildSwap(self, order, swap) ==
    Ok([calls |-> <<[to |-> swap.tx.to, calldata |-> swap.tx.data]>>,
        input |-> [token |-> order.sell, amount |-> swap.from_token_amount],
        output |-> [token |-> order.buy, amount |-> swap.to_token_amount],
        allowance |-> [spender |-> self.spender, amount |-> swap.from_token_amount],
        gas |-> swap.tx.gas])

\* OneInch::swap from the upstream reply on.
OneInchFinish(self, order, query, reply) ==
    IF OneInchQuote(self, query, reply).tag = "Err"
    THEN OneInchQuote(self, query, reply)
    ELSE OneInchBuildSwap(self, order, OneInchQuote(self, query, reply).data)

\* OneInch::swap
OneInchSwap(self, order, slippage, reply) ==
    IF OneInchTryWithDomain(self.defaults, order, slippage).tag = "Err"
    THEN OneInchTryWithDomain(self.defaults, order, slippage)
    ELSE OneInchFinish(self, order,
                       OneInchTryWithDomain(self.defaults, order, slippage).query, reply)

\* Inputs of the 1Inch adapter.
OneInchConfig ==
    [endpoint |-> None,
     settlement |-> "Settlement",
     liquidity |-> [kind |-> "Any", list |-> <<>>],
     referrer |-> None,
     main_route_parts |-> None,
     connector_tokens |-> None,
     complexity_level |-> None]

OneInchInstance == OneInchSelf(OneInchConfig, None, "Spender")

OneInchOrders ==
    {[sell |-> "A", buy |-> b, amount |-> 1, side |-> s] :
        b \in {"A", "B"}, s \in Sides}

OneInchSwaps ==
    {[from_token |-> ft, to_token |-> tt,
      from_token_amount |-> fa, to_token_amount |-> ta,
      tx |-> [to |-> "Router", data |-> <<1, 2>>, gas |-> 1]] :
        ft \in Tokens, tt \in Tokens, fa \in U256, ta \in U256}

OneInchReplies ==
    {[status |-> 200, body |-> [kind |-> "success", data |-> sw]] : sw \in OneInchSwaps}
    \cup FailureReplies

-----------------------------------------------------------------------------
\* 0x query DTO.

\* Query::with_domain
ZeroExWithDomain(self, order, slippage) ==
    [self EXCEPT !.sell_token = order.sell,
                 !.buy_token = order.buy,
                 !.sell_amount = order.amount,
                 !.slippage_bps = SlippageAsBps(slippage)]

\* The defaults a 0x adapter is configured with.
ZeroExDefaults ==
    {[chain_id |-> 1,
      sell_token |-> "0x0",
      buy_token |-> "0x0",
      sell_amount |-> 0,
      taker |-> "Settlement",
      tx_origin |-> None,
      gas_price |-> None,
      slippage_bps |-> None,
      excluded_sources |-> ex] : ex \in {<<>>, <<"Uniswap_V2">>}}

ZeroExOrders ==
    {[sell |-> s, buy |-> b, amount |-> a, side |-> sd] :
        s \in Tokens, b \in Tokens, a \in U256 \ {0}, sd \in Sides}

-----------------------------------------------------------------------------
\* Construction of the 1Inch adapter: OneInch::new and OneInch::try_new.
\* Time is counted in whole seconds since `start`.

INIT_TIMEOUT == 10
RETRY_DELAY == 1

ProtocolIds == {"UNISWAP_V2", "PMM1"}

\* The liquidity policies the construction is checked with.
Liquidities ==
    {[kind |-> "Any", list |-> <<>>],
     [kind |-> "Only", list |-> <<"PMM1">>],
     [kind |-> "Exclude", list |-> <<"PMM1">>]}

BootConfig(liquidity) == [OneInchConfig EXCEPT !.liquidity = liquidity]

\* Replies of the liquidity-sources and approve/spender endpoints.
LiquidityReplies ==
    {[status |-> 200,
      body |-> [kind |-> "success",
                data |-> [protocols |-> [i \in DOMAIN ids |-> [id |-> ids[i]]]]]] :
        ids \in SeqsUpTo(ProtocolIds, MaxProtocols)}

SpenderReplies ==
    {[status |-> 200, body |-> [kind |-> "success", data |-> [address |-> "Spender"]]]}

BootFailureReplies ==
    {[status |-> 0, body |-> GarbageBody],
     [status |-> 429, body |-> GarbageBody],
     [status |-> 500,
      body |-> [kind |-> "error", status_code |-> 500, description |-> "forbidden"]]}

Contains(seq, x) == \E i \in DOMAIN seq : seq[i] = x

\* The filter that keeps the excluded ids instead of dropping them.
RECURSIVE FilterExcludedInverted(_, _)
FilterExcludedInverted(protocols, excluded) ==
    IF protocols = <<>>
    THEN <<>>
    ELSE (IF Contains(excluded, Head(protocols).id)
          THEN <<Head(protocols).id>> ELSE <<>>)
         \o FilterExcludedInverted(Tail(protocols), excluded)

\* liquidity.protocols.into_iter()
\*     .filter(|protocol| !excluded.contains(&protocol.id))
\*     .map(|protocol| protocol.id).collect()
RECURSIVE FilterExcluded(_, _)
FilterExcluded(protocols, excluded) ==
    IF protocols = <<>>
    THEN <<>>
    ELSE (IF ~Contains(excluded, Head(protocols).id)
          THEN <<Head(protocols).id>> ELSE <<>>)
         \o FilterExcluded(Tail(protocols), excluded)

\* The Exclude arm of `let protocols = match config.liquidity`.
ExcludeProtocols(liquidity, excluded) ==
    Some(FilterExcluded(liquidity.protocols, excluded))

\* The arms of `let protocols = match config.liquidity` that need no lookup.
StaticProtocols(liquidity) ==
    IF liquidity.kind = "Any" THEN None ELSE Some(liquidity.list)

\* The timeout test with a non-strict comparison.
TimedOutAtDeadline(elapsed) == elapsed >= INIT_TIMEOUT

\* The timeout test that never fires.
TimedOutNever(elapsed) == FALSE

\* start.elapsed() > INIT_TIMEOUT
TimedOut(elapsed) == elapsed > INIT_TIMEOUT

\* The body of the loop of OneInch::new after try_new returned Err(error) at
\* time `elapsed`, the lookup `at` having failed.
AfterError(b, elapsed, error, at) ==
    IF TimedOut(elapsed)
    THEN [b EXCEPT !.pc = "fatal", !.elapsed = elapsed, !.error = Some(error),
                   !.failed_at = at, !.failures = b.failures + 1,
                   !.failed_elapsed = Some(elapsed),
                   !.protocols = None, !.liquidity = None]
    ELSE [b EXCEPT !.pc = "sleep", !.elapsed = elapsed, !.error = Some(error),
                   !.failed_at = at, !.failures = b.failures + 1,
                   !.failed_elapsed = Some(elapsed),
                   !.protocols = None, !.liquidity = None,
                   !.warnings = b.warnings + 1]

\* The Ok arm with the timeout test applied to successful attempts as well.
AfterOkWithinTimeout(b, elapsed, solver) ==
    IF TimedOut(elapsed)
    THEN [b EXCEPT !.pc = "fatal", !.elapsed = elapsed, !.protocols = None]
    ELSE [b EXCEPT !.pc = "ready", !.elapsed = elapsed, !.protocols = None,
                   !.solver = Some(solver)]

\* The body of the loop of OneInch::new after try_new returned Ok(solver) at
\* time `elapsed`: `Ok(solver) => return solver`.
AfterOk(b, elapsed, solver) ==
    [b EXCEPT !.pc = "ready", !.elapsed = elapsed, !.protocols = None,
              !.solver = Some(solver)]

\* One more call of try_new is counted when the loop is at its head.
Attempts(b) == IF b.pc = "try" THEN b.attempts + 1 ELSE b.attempts

\* The construction as try_new is entered from the head of the loop, or
\* unchanged when try_new is already under way.
EnterTryNew(b) == [b EXCEPT !.attempts = Attempts(b)]

\* try_new under the Exclude policy, up to the liquidity-sources round trip,
\* which takes d seconds.
LiquiditySources(d, reply) ==
    /\ boot.pc = "try"
    /\ boot.config.liquidity.kind = "Exclude"
    /\ LET rt == Roundtrip(reply, TRUE)
           b == [EnterTryNew(boot) EXCEPT !.lookups = boot.lookups + 1]
       IN  boot' =
             IF rt.tag = "Ok"
             THEN [b EXCEPT !.pc = "spender", !.elapsed = boot.elapsed + d,
                            !.liquidity = Some(rt.data),
                            !.protocols =
                               ExcludeProtocols(rt.data, boot.config.liquidity.list)]
             ELSE AfterError(b, boot.elapsed + d, OneInchErrorFrom(rt),
                             "liquidity-sources")
    /\ UNCHANGED <<call, calls, ID, adapter>>

\* The rest of try_new: the defaults and the approve/spender round trip, which
\* takes d seconds. Under the Any and Only policies it is the whole attempt.
ApproveSpender(d, reply) ==
    /\ \/ boot.pc = "spender"
       \/ boot.pc = "try" /\ boot.config.liquidity.kind # "Exclude"
    /\ LET rt == Roundtrip(reply, TRUE)
           b == EnterTryNew(boot)
           protocols == IF boot.pc = "spender"
                        THEN boot.protocols
                        ELSE StaticProtocols(boot.config.liquidity)
       IN  boot' =
             IF rt.tag = "Ok"
             THEN AfterOk(b, boot.elapsed + d,
                          OneInchSelf(boot.config, protocols, rt.data.address))
             ELSE AfterError(b, boot.elapsed + d, OneInchErrorFrom(rt),
                             "approve/spender")
    /\ UNCHANGED <<call, calls, ID, adapter>>

\* tokio::time::sleep(RETRY_DELAY).await, which returns after the delay and
\* up to `over` seconds more; the iteration ends and `error` goes out of scope.
RetrySleep(over) ==
    /\ boot.pc = "sleep"
    /\ boot' = [boot EXCEPT !.pc = "try", !.error = None,
                            !.elapsed = boot.elapsed + RETRY_DELAY + over]
    /\ UNCHANGED <<call, calls, ID, adapter>>

\* The construction before its first attempt, `start` just taken.
BootStart(liquidity) ==
    [pc |-> "try", config |-> BootConfig(liquidity), elapsed |-> 0,
     attempts |-> 0, failures |-> 0, warnings |-> 0,
     error |-> None, failed_at |-> "", protocols |-> None,
     solver |-> None,
     \* the liquidity-sources response of the attempt under way, the number
     \* of liquidity-sources requests made so far and the time of the last
     \* failure
     liquidity |-> None, lookups |-> 0, failed_elapsed |-> None]

\* Requests made to the constructed adapter.
BootedOrders ==
    {[sell |-> "A", buy |-> "B", amount |-> 1, side |-> s] : s \in Sides}

BootedReplies ==
    {[status |-> 200,
      body |-> [kind |-> "success",
                data |-> [from_token |-> "A", to_token |-> "B",
                          from_token_amount |-> 1, to_token_amount |-> 1,
                          tx |-> [to |-> "Router", data |-> <<1, 2>>, gas |-> 1]]]],
     [status |-> 429, body |-> GarbageBody]}

\* let query = self.defaults.clone().try_with_domain(order, slippage)
OneInchSwapQuery(self, order, slippage) ==
    IF OneInchTryWithDomain(self.defaults, order, slippage).tag = "Ok"
    THEN Some(OneInchTryWithDomain(self.defaults, order, slippage).query)
    ELSE None

\* OneInch::swap on the adapter that OneInch::new returned.
BootedSwap(order, slippage, reply) ==
    /\ boot.pc = "ready"
    /\ call.pc = "idle"
    /\ call' = [pc |-> "done", adapter |-> "oneinch", order |-> order,
                slippage |-> slippage, reply |-> reply,
                query |-> OneInchSwapQuery(boot.solver[1], order, slippage),
                result |-> OneInchSwap(boot.solver[1], order, slippage, reply)]
    /\ UNCHANGED <<boot, calls, ID, adapter>>

NextNew ==
    \/ \E d \in 0 .. MaxLookupSecs, reply \in LiquidityReplies \cup BootFailureReplies :
          LiquiditySources(d, reply)
    \/ \E d \in 0 .. MaxLookupSecs, reply \in SpenderReplies \cup BootFailureReplies :
          ApproveSpender(d, reply)
    \/ \E over \in 0 .. MaxOversleep : RetrySleep(over)

\* The construction followed by requests to the adapter it returned.
NextBooted ==
    \/ NextNew
    \/ \E order \in BootedOrders, slippage \in Slippages, reply \in BootedReplies :
          BootedSwap(order, slippage, reply)

\* The state of the construction as the caller sees it.
BootState ==
    IF boot.pc = "ready" THEN "Ready"
    ELSE IF boot.pc = "fatal" THEN "Fatal"
    ELSE "Initializing"

-----------------------------------------------------------------------------
\* One call at a time (specification Spec).

SorSwapCall ==
    /\ call.pc = "idle"
    /\ \E order \in SorOrders, slippage \in Slippages, reply \in SorReplies,
          tokens \in {Tokens, {"A"}, {}} :
          /\ tokens # Tokens => reply = [status |-> 0, body |-> GarbageBody]
          /\ call' = [pc |-> "done", adapter |-> "sor", order |-> order,
                      slippage |-> slippage, tokens |-> tokens, reply |-> reply,
                      result |-> SorSwap(SorInstance, order, slippage, tokens, reply)]
    /\ UNCHANGED <<boot, calls, ID, adapter>>

OneInchSwapCall ==
    /\ call.pc = "idle"
    /\ \E order \in OneInchOrders, slippage \in Slippages, reply \in OneInchReplies :
          call' = [pc |-> "done", adapter |-> "oneinch", order |-> order,
                   slippage |-> slippage, reply |-> reply,
                   result |-> OneInchSwap(OneInchInstance, order, slippage, reply)]
    /\ UNCHANGED <<boot, calls, ID, adapter>>

ZeroExWithDomainCall ==
    /\ call.pc = "idle"
    /\ \E defaults \in ZeroExDefaults, order \in ZeroExOrders, slippage \in Slippages :
          call' = [pc |-> "done", adapter |-> "zeroex", order |-> order,
                   slippage |-> slippage, defaults |-> defaults,
                   query |-> ZeroExWithDomain(defaults, order, slippage)]
    /\ UNCHANGED <<boot, calls, ID, adapter>>

Next == SorSwapCall \/ OneInchSwapCall \/ ZeroExWithDomainCall

-----------------------------------------------------------------------------
\* Concurrent swap calls on one adapter instance (specification SpecConc).

Procs == 1 .. NCalls

\* ID.fetch_add that returns the counter without advancing it.
FetchAddLost(counter) == [id |-> counter, next |-> counter]

\* ID.fetch_add(1, Relaxed): returns the previous value. The counter is 64
\* bits wide; it cannot wrap within the calls of the model.
FetchAdd(counter) == [id |-> counter, next |-> counter + 1]

ConcOrders ==
    {[sell |-> "A", buy |-> "B", amount |-> 1, side |-> s] : s \in Sides}

ConcSlippage == [bps |-> 5000]

ConcSorQuote(n) ==
    [token_addresses |-> <<"A", "B">>, token_in |-> "A", token_out |-> "B",
     swap_amount_raw |-> 1, return_amount_raw |-> 1, swaps |-> SwapSteps(n)]

ConcOneInchSwap ==
    [from_token |-> "A", to_token |-> "B", from_token_amount |-> 1,
     to_token_amount |-> 1, tx |-> [to |-> "Router", data |-> <<1, 2>>, gas |-> 1]]

ConcReplies(self) ==
    {[status |-> 429, body |-> GarbageBody]}
    \cup (IF self.kind = "sor"
          THEN {[status |-> 200, body |-> [kind |-> "success", data |-> ConcSorQuote(n)]] :
                  n \in 0 .. 1}
          ELSE {[status |-> 200, body |-> [kind |-> "success", data |-> ConcOneInchSwap]],
                [status |-> 400,
                 body |-> [kind |-> "error", status_code |-> 400,
                           description |-> "insufficient liquidity"]]})

\* The query-building step of swap, for either adapter.
BuildQuery(self, order, slippage, tokens) ==
    IF self.kind = "sor"
    THEN SorQueryFromDomain(self, order, tokens, slippage)
    ELSE OneInchTryWithDomain(self.defaults, order, slippage)

\* The rest of swap once the upstream replied, for either adapter.
FinishSwap(self, c, reply) ==
    IF self.kind = "sor"
    THEN SorFinish(self, c.order, c.slippage, reply)
    ELSE OneInchFinish(self, c.order, c.query, reply)

\* swap up to its first await: the query is built, the request id is drawn and
\* the request is sent.
SwapStart(p, order, slippage, tokens) ==
    /\ calls[p].pc = "idle"
    /\ LET built == BuildQuery(adapter, order, slippage, tokens)
           drawn == FetchAdd(ID)
       IN  IF built.tag = "Err"
           THEN /\ calls' = [calls EXCEPT ![p] =
                       [pc |-> "done", order |-> order, slippage |-> slippage,
                        tokens |-> tokens, id |-> None, reply |-> None,
                        result |-> built]]
                /\ ID' = ID
           ELSE /\ calls' = [calls EXCEPT ![p] =
                       [pc |-> "await", order |-> order, slippage |-> slippage,
                        tokens |-> tokens, id |-> Some(drawn.id),
                        query |-> built.query]]
                /\ ID' = drawn.next
    /\ UNCHANGED <<call, boot, adapter>>

\* swap from the upstream reply to its return.
SwapFinish(p, reply) ==
    /\ calls[p].pc = "await"
    /\ calls' = [calls EXCEPT ![p] =
          [pc |-> "done", order |-> calls[p].order, slippage |-> calls[p].slippage,
           tokens |-> calls[p].tokens, id |-> calls[p].id, reply |-> Some(reply),
           result |-> FinishSwap(adapter, calls[p], reply)]]
    /\ UNCHANGED <<call, boot, ID, adapter>>

NextConc ==
    \/ \E p \in Procs, order \in ConcOrders, tokens \in {Tokens, {}} :
          SwapStart(p, order, ConcSlippage, tokens)
    \/ \E p \in Procs : \E reply \in ConcReplies(adapter) : SwapFinish(p, reply)

-----------------------------------------------------------------------------
\* Specifications.

NoCalls == [p \in Procs |-> [pc |-> "idle"]]

Init ==
    /\ call = [pc |-> "idle"]
    /\ boot = BootStart([kind |-> "Any", list |-> <<>>])
    /\ calls = NoCalls
    /\ ID = 0
    /\ adapter = OneInchInstance

InitNew ==
    /\ call = [pc |-> "idle"]
    /\ \E liquidity \in Liquidities : boot = BootStart(liquidity)
    /\ calls = NoCalls
    /\ ID = 0
    /\ adapter = OneInchInstance

InitConc ==
    /\ call = [pc |-> "idle"]
    /\ boot = BootStart([kind |-> "Any", list |-> <<>>])
    /\ calls = NoCalls
    /\ ID = 0
    /\ adapter \in {SorInstance, OneInchInstance}

Spec == Init /\ [][Next]_vars

SpecNew == InitNew /\ [][NextNew]_vars

\* Every lookup of an attempt completes and the sleep returns.
LiveNew == InitNew /\ [][NextNew]_vars /\ WF_vars(NextNew)

\* The construction and the use of the adapter it returns.
SpecBooted == InitNew /\ [][NextBooted]_vars

SpecConc == InitConc /\ [][NextConc]_vars

-----------------------------------------------------------------------------
\* Properties of a single call (checked under Spec).

SorDone == call.pc = "done" /\ call.adapter = "sor"
OneInchDone == call.pc = "done" /\ call.adapter = "oneinch"
ZeroExDone == call.pc = "done" /\ call.adapter = "zeroex"

\* The call got as far as sending its request upstream.
RequestSent ==
    \/ SorDone /\ SorQueryFromDomain(SorInstance, call.order, call.tokens,
                                     call.slippage).tag = "Ok"
    \/ OneInchDone /\ call.order.side = "Sell"

\* The Balancer call received a non-empty quote.
SorQuoted ==
    /\ SorDone
    /\ call.tokens = Tokens
    /\ call.reply.status = 200
    /\ call.reply.body.kind = "success"
    /\ Len(call.reply.body.data.swaps) > 0

\* C1: whenever an adapter's swap returns Ok(swap), swap.input.token is
\* order.sell and swap.output.token is order.buy, for the 1Inch and the
\* Balancer adapter alike and whatever tokens the response names.
C1_TokensFollowOrder ==
    (call.pc = "done" /\ call.adapter \in {"sor", "oneinch"} /\ call.result.tag = "Ok")
        => /\ call.result.swap.input.token = call.order.sell
           /\ call.result.swap.output.token = call.order.buy

\* C2: whenever the upstream answers a quote request with HTTP status 429,
\* the adapter's error is RateLimited, whatever body comes with the 429.
C2_RateLimitedOn429 ==
    (RequestSent /\ call.reply.status = 429)
        => call.result = Err([kind |-> "RateLimited"])

\* The limits of the batchSwap call line up with the route's token list.
LimitsAligned ==
    /\ call.result.swap.call.assets = call.reply.body.data.token_addresses
    /\ DOMAIN call.result.swap.call.limits
         = DOMAIN call.reply.body.data.token_addresses

\* C3 as stated: one limit per token of the route, in order; the sell token's
\* entry is >= 0, the buy token's entry is <= 0, every other entry is 0.
C3_LimitSigns ==
    (SorDone /\ call.result.tag = "Ok")
        => LET quote == call.reply.body.data
               limits == call.result.swap.call.limits
           IN  /\ LimitsAligned
               /\ \A i \in DOMAIN quote.token_addresses :
                    /\ quote.token_addresses[i] = quote.token_in => limits[i] >= 0
                    /\ quote.token_addresses[i] = quote.token_out => limits[i] <= 0
                    /\ quote.token_addresses[i] \notin {quote.token_in, quote.token_out}
                         => limits[i] = 0

\* C3 (amended): one limit per token of the route, in order; the sell token's
\* entry is >= 0; the buy token's entry is <= 0 when the buy token differs
\* from the sell token (a response naming one token as both gets the sell
\* token's entry for it); every other entry is 0.
C3_LimitSignsDistinct ==
    (SorDone /\ call.result.tag = "Ok")
        => LET quote == call.reply.body.data
               limits == call.result.swap.call.limits
           IN  /\ LimitsAligned
               /\ \A i \in DOMAIN quote.token_addresses :
                    /\ quote.token_addresses[i] = quote.token_in => limits[i] >= 0
                    /\ (/\ quote.token_addresses[i] = quote.token_out
                        /\ quote.token_out # quote.token_in) => limits[i] <= 0
                    /\ quote.token_addresses[i] \notin {quote.token_in, quote.token_out}
                         => limits[i] = 0

\* A route over three tokens with a positive sell limit, a negative buy
\* limit and a zero limit for the intermediate token.
C3_Witness ==
    /\ SorDone
    /\ call.result.tag = "Ok"
    /\ Len(call.reply.body.data.token_addresses) = 3
    /\ call.reply.body.data.token_addresses[1] = call.reply.body.data.token_in
    /\ call.reply.body.data.token_addresses[3] = call.reply.body.data.token_out
    /\ call.result.swap.call.limits[1] > 0
    /\ call.result.swap.call.limits[2] = 0
    /\ call.result.swap.call.limits[3] < 0

\* C6 as stated: a non-2xx reply of the swap endpoint with a provider error
\* body gives NotFound for provider codes 400 and 403 and Api{code,
\* description} with the provider's values otherwise; an HTTP 403 with a
\* provider error body is NotFound.
C6_ProviderErrors ==
    (RequestSent /\ OneInchDone /\ call.reply.status # 0
       /\ ~Is2xx(call.reply.status) /\ call.reply.body.kind = "error")
        => /\ call.reply.body.status_code \in {400, 403}
                => call.result = Err([kind |-> "NotFound"])
           /\ call.reply.body.status_code \notin {400, 403}
                => call.result = Err([kind |-> "Api",
                                      code |-> call.reply.body.status_code,
                                      description |-> call.reply.body.description])
           /\ call.reply.status = 403 => call.result = Err([kind |-> "NotFound"])

\* C6 (amended): the mapping is by the provider code of the error body, not by
\* the HTTP status: NotFound for provider codes 400 and 403, Api{code,
\* description} with the provider's values otherwise, under every non-2xx
\* HTTP status (403 included).
C6_ProviderErrorsByBodyCode ==
    (RequestSent /\ OneInchDone /\ call.reply.status # 0
       /\ ~Is2xx(call.reply.status) /\ call.reply.body.kind = "error")
        => /\ call.reply.body.status_code \in {400, 403}
                => call.result = Err([kind |-> "NotFound"])
           /\ call.reply.body.status_code \notin {400, 403}
                => call.result = Err([kind |-> "Api",
                                      code |-> call.reply.body.status_code,
                                      description |-> call.reply.body.description])

\* An HTTP 403 whose error body carries provider code 403, mapped to NotFound.
C6_Witness ==
    /\ OneInchDone
    /\ call.order.side = "Sell"
    /\ call.reply.status = 403
    /\ call.reply.body.kind = "error"
    /\ call.reply.body.status_code = 403
    /\ call.result = Err([kind |-> "NotFound"])

\* C7: the Balancer adapter picks amounts and bounds by order.side alone.
\* Buy: input = return_amount, output = swap_amount, max input =
\* slippage.add(input), min output = output, kind GivenOut. Sell: input =
\* swap_amount, output = return_amount, max input = input, min output =
\* slippage.sub(output), kind GivenIn. The allowance is the max input.
C7_SideSelection ==
    (SorDone /\ call.result.tag = "Ok")
        => LET quote == call.reply.body.data
               swap == call.result.swap
           IN  /\ call.order.side = "Buy"
                    => /\ swap.input.amount = quote.return_amount_raw
                       /\ swap.output.amount = quote.swap_amount_raw
                       /\ call.result.max_input
                            = SlippageAdd(call.slippage, quote.return_amount_raw)
                       /\ call.result.min_output = quote.swap_amount_raw
                       /\ swap.call.kind = "GivenOut"
               /\ call.order.side = "Sell"
                    => /\ swap.input.amount = quote.swap_amount_raw
                       /\ swap.output.amount = quote.return_amount_raw
                       /\ call.result.max_input = quote.swap_amount_raw
                       /\ call.result.min_output
                            = SlippageSub(call.slippage, quote.return_amount_raw)
                       /\ swap.call.kind = "GivenIn"
               /\ swap.allowance.amount = call.result.max_input

\* A Buy order whose quoted amounts differ and whose input bound was loosened.
C7_Witness ==
    /\ SorDone
    /\ call.result.tag = "Ok"
    /\ call.order.side = "Buy"
    /\ call.reply.body.data.return_amount_raw # call.reply.body.data.swap_amount_raw
    /\ call.result.max_input > call.result.swap.input.amount

C9_SellAmount ==
    ZeroExDone
        => /\ call.query.sell_token = call.order.sell
           /\ call.query.buy_token = call.order.buy
           /\ call.query.slippage_bps = Some(call.slippage.bps)
           /\ call.query.chain_id = call.defaults.chain_id
           /\ call.query.taker = call.defaults.taker
           /\ call.query.excluded_sources = call.defaults.excluded_sources
           /\ call.order.side = "Sell" => call.query.sell_amount = call.order.amount
           /\ call.order.side = "Buy" => call.query.sell_amount # call.order.amount

-----------------------------------------------------------------------------
\* Properties of the construction (checked under SpecNew and LiveNew).

\* Most attempts a construction can make: one per RETRY_DELAY within
\* INIT_TIMEOUT, the first one, and the one that finds the timeout exceeded.
MaxAttempts == (INIT_TIMEOUT \div RETRY_DELAY) + 2

\* C4: construction is Initializing -> Ready | Fatal. Attempts are separated
\* by a delay of (at least) RETRY_DELAY; Ready is entered by a successful
\* attempt, Fatal only with the timeout exceeded; provided every attempt
\* completes, Ready or Fatal is eventually reached, after a bounded number of
\* attempts; once Ready nothing changes any more.
C4_BootTerminates ==
    /\ <>(BootState \in {"Ready", "Fatal"})
    /\ [](boot.attempts <= MaxAttempts)
    /\ [](BootState = "Ready" => boot.solver # None)
    /\ [](BootState = "Fatal" => boot.elapsed > INIT_TIMEOUT)
    /\ [][/\ BootState' # BootState => BootState = "Initializing"
          /\ BootState = "Ready" => boot' = boot
          /\ boot'.attempts > boot.attempts
               => (boot.attempts = 0 \/ boot.pc = "try")
          /\ (boot.pc = "sleep" /\ boot'.pc = "try")
               => boot'.elapsed >= boot.elapsed + RETRY_DELAY]_vars

\* Ready reached by the third attempt, after two failed ones.
C4_Witness ==
    /\ BootState = "Ready"
    /\ boot.attempts = 3
    /\ boot.failures = 2
    /\ boot.elapsed >= 2 * RETRY_DELAY

\* A step in which an attempt fails.
AttemptFails == boot'.failures = boot.failures + 1

\* C5 as stated: every failed attempt is non-fatal: its error is logged, the
\* construction stays Initializing and retries after the delay.
C5_FailuresNonFatal ==
    [][AttemptFails
         => /\ BootState' = "Initializing"
            /\ boot'.pc = "sleep"
            /\ boot'.warnings = boot.warnings + 1]_vars

\* C5 (amended): a failed attempt that ends no more than INIT_TIMEOUT after
\* the start is non-fatal: its error is logged, the construction stays
\* Initializing and, after the delay, tries again; a failed attempt that ends
\* later than that is fatal and logs nothing.
C5_FailuresNonFatalInTime ==
    [][/\ (AttemptFails /\ boot'.elapsed <= INIT_TIMEOUT)
            => /\ BootState' = "Initializing"
               /\ boot'.pc = "sleep"
               /\ boot'.error # None
               /\ boot'.warnings = boot.warnings + 1
               /\ boot'.solver = None
       /\ (AttemptFails /\ boot'.elapsed > INIT_TIMEOUT)
            => /\ BootState' = "Fatal"
               /\ boot'.warnings = boot.warnings
       /\ boot.pc = "sleep"
            => /\ boot'.pc = "try"
               /\ boot'.elapsed >= boot.elapsed + RETRY_DELAY]_vars

\* Under the Exclude policy, back at the head of the loop after two logged
\* failures, the last one of the spender lookup.
C5_Witness ==
    /\ boot.pc = "try"
    /\ boot.config.liquidity.kind = "Exclude"
    /\ boot.warnings = 2
    /\ boot.failed_at = "approve/spender"

-----------------------------------------------------------------------------
\* Properties of concurrent calls (checked under SpecConc).

Started == {p \in Procs : calls[p].pc # "idle"}
Drew == {p \in Started : calls[p].id # None}
Finished == {p \in Procs : calls[p].pc = "done"}

UniqueIds == \A p, q \in Drew : p # q => calls[p].id # calls[q].id

\* Calls with equal inputs have equal results, whatever ids they drew.
ResultsIndependent ==
    \A p, q \in Finished :
        (/\ calls[p].order = calls[q].order
         /\ calls[p].slippage = calls[q].slippage
         /\ calls[p].tokens = calls[q].tokens
         /\ calls[p].reply = calls[q].reply) => calls[p].result = calls[q].result

\* C10 as stated: the request-id counter increases by exactly one per call,
\* no two calls get the same id, and results depend only on the call's inputs.
C10_OnePerCall ==
    /\ ID = Cardinality(Started)
    /\ UniqueIds
    /\ ResultsIndependent

\* C10 (amended): the counter is the only shared state written; it increases
\* by exactly one per call whose query was built (a call rejected while its
\* query is built returns before drawing an id), no two calls get the same
\* id, the adapter's configuration never changes, and calls with the same
\* order, slippage and upstream reply return the same result.
C10_OnePerRequest ==
    /\ [](ID = Cardinality(Drew))
    /\ [](\A p \in Started : (calls[p].id = None) <=>
            (calls[p].pc = "done" /\ calls[p].reply = None))
    /\ [](UniqueIds)
    /\ [](ResultsIndependent)
    /\ [][adapter' = adapter /\ ID' \in {ID, ID + 1}]_vars

\* Two finished calls with the same inputs and results and different ids.
C10_Witness ==
    \E p, q \in Finished :
        /\ p # q
        /\ calls[p].id # None
        /\ calls[q].id # None
        /\ calls[p].id # calls[q].id
        /\ calls[p].reply = calls[q].reply
        /\ calls[p].order = calls[q].order
        /\ calls[p].result.tag = "Ok"
        /\ calls[p].result = calls[q].result

-----------------------------------------------------------------------------
\* Properties of the constructed adapter's defaults (checked under SpecBooted).

\* The allow-list in the defaults of the adapter that OneInch::new returned.
AllowList == boot.solver[1].defaults.protocols

\* The positions of the provider's list whose id is not excluded, and the
\* k-th of them.
KeptPositions(raw, excluded) ==
    {i \in DOMAIN raw : \A j \in DOMAIN excluded : excluded[j] # raw[i].id}

NthOf(positions, k) ==
    CHOOSE i \in positions : Cardinality({j \in positions : j < i}) = k - 1

\* C11: after a successful setup the allow-list of the default query follows
\* the liquidity policy: under Exclude it is exactly the ids of the
\* liquidity-sources response that are not excluded, in the provider's order;
\* under Only it is the configured list; under Any there is none. The
\* liquidity-sources lookup is made only under Exclude (once per attempt), and
\* a per-quote query carries the defaults' allow-list and other default fields.
C11_AllowListFollowsPolicy ==
    /\ boot.config.liquidity.kind # "Exclude"
         => boot.lookups = 0 /\ boot.liquidity = None
    /\ boot.config.liquidity.kind = "Exclude" => boot.lookups = boot.attempts
    /\ BootState = "Ready"
         => /\ boot.config.liquidity.kind = "Any" => AllowList = None
            /\ boot.config.liquidity.kind = "Only"
                 => AllowList = Some(boot.config.liquidity.list)
            /\ boot.config.liquidity.kind = "Exclude"
                 => /\ boot.liquidity # None
                    /\ LET raw == boot.liquidity[1].protocols
                           kept == KeptPositions(raw, boot.config.liquidity.list)
                       IN  AllowList =
                             Some([k \in 1 .. Cardinality(kept) |->
                                     raw[NthOf(kept, k)].id])
    /\ (BootState = "Ready" /\ call.pc = "done" /\ call.query # None)
         => /\ call.query[1].protocols = AllowList
            /\ call.query[1].from_address = boot.solver[1].defaults.from_address
            /\ call.query[1].referrer_address
                 = boot.solver[1].defaults.referrer_address
            /\ call.query[1].from_token_address = call.order.sell
            /\ call.query[1].to_token_address = call.order.buy

\* Under Exclude, the provider listed an excluded id and then another one; the
\* allow-list is the other one alone and a quote's query carries it.
C11_Witness ==
    /\ BootState = "Ready"
    /\ boot.config.liquidity.kind = "Exclude"
    /\ boot.liquidity # None
    /\ Len(boot.liquidity[1].protocols) = 2
    /\ boot.liquidity[1].protocols[1].id = "PMM1"
    /\ boot.liquidity[1].protocols[2].id = "UNISWAP_V2"
    /\ AllowList = Some(<<"UNISWAP_V2">>)
    /\ call.pc = "done"
    /\ call.query # None
    /\ call.query[1].protocols = Some(<<"UNISWAP_V2">>)

-----------------------------------------------------------------------------
\* Properties of the timeout of the construction (checked under SpecNew).

\* C12: the timeout is evaluated only right after a failed attempt. Fatal is
\* entered only by a step in which an attempt fails with more than
\* INIT_TIMEOUT elapsed, never by the sleep and never by a lookup that
\* succeeds; a failure at exactly INIT_TIMEOUT is followed by the sleep and a
\* new attempt, which begins RETRY_DELAY (plus the sleep's overrun) later.
C12_TimeoutOnlyAfterFailure ==
    /\ [][(BootState' = "Fatal" /\ BootState # "Fatal")
            => /\ AttemptFails
               /\ boot.pc \in {"try", "spender"}
               /\ boot'.elapsed > INIT_TIMEOUT]_vars
    /\ [][boot.pc = "sleep" => boot'.pc = "try"]_vars
    /\ [][(AttemptFails /\ boot'.elapsed = INIT_TIMEOUT) => boot'.pc = "sleep"]_vars
    /\ [](BootState = "Fatal"
            => /\ boot.failed_elapsed = Some(boot.elapsed)
               /\ boot.elapsed > INIT_TIMEOUT)
    /\ []((boot.pc = "try" /\ boot.failures > 0)
            => /\ boot.failed_elapsed[1] <= INIT_TIMEOUT
               /\ boot.elapsed >= boot.failed_elapsed[1] + RETRY_DELAY
               /\ boot.elapsed <= boot.failed_elapsed[1] + RETRY_DELAY + MaxOversleep)

\* Ready after the timeout has passed: the last failure was at exactly
\* INIT_TIMEOUT, and the attempt begun after it succeeded.
C12_Witness ==
    /\ BootState = "Ready"
    /\ boot.failed_elapsed = Some(INIT_TIMEOUT)
    /\ boot.elapsed > INIT_TIMEOUT

====
